---------------------------- MODULE Spec2Model ----------------------------
(***************************************************************************)
(* Steam wishlist price tracker: the catalog store (database.py), the      *)
(* three source syncs (steam.py, itad.py, sync_loaded_helper.py with       *)
(* loaded_bs4.py) and the web entry point (app.py).                        *)
(*                                                                         *)
(* Prices are integers in pence.  The code holds them as floats in pounds; *)
(* on the price sets used here the float expressions of the code and the   *)
(* exact integer expressions below give the same integers.  The timestamp  *)
(* columns (added_on, fetched_at, recorded_at, discovered_at) are left     *)
(* out; price_history and bundles are sequences in insertion order.        *)
(***************************************************************************)
EXTENDS Integers, Sequences, FiniteSets, TLC

VARIABLES
    games, prices, price_history, historic_lows, bundles, \* the tables
    rate_limit,    \* loaded_bs4's _min_delay_seconds and _consecutive_errors
    sync_status,   \* app.py's sync_status
    threads,       \* the full-sync runs: the background threads started by
                   \* api_sync_full, or the processes of main.py sync
    last,          \* the last operation, how it ended and what it was given
    env            \* what the external sources can answer in this behaviour

vars == <<games, prices, price_history, historic_lows, bundles,
          rate_limit, sync_status, threads, last, env>>

-----------------------------------------------------------------------------
(* Bounds of the model *)

\* largest number of rows of price_history
MaxHistory == 2

\* number of bundle rows a behaviour may insert
MaxBundles == 2

\* number of background sync threads a behaviour may start
MaxThreads == 2

\* largest value of _consecutive_errors a behaviour may reach
MaxErrors == 2

\* number of successive requests for one product page whose answers are given
MaxRequests == 2

-----------------------------------------------------------------------------
(* Values *)

\* Python None / SQL NULL for a price column
NULL == -1

\* NULL / empty itad_slug
NoSlug == <<"", 0>>

\* last_checked: NULL, or the time of the last mark_game_checked
NeverChecked == "NULL"

Checked == "datetime('now')"

Items == {570, 999}

\* games are read ORDER BY title; the titles used here sort like the ids
Title(app_id) == IF app_id = 570 THEN "Dota 2" ELSE "Zeta"

TitleKey(app_id) == app_id

SteamUrl(app_id) == <<"https://store.steampowered.com/app", app_id>>

LoadedUrl(app_id) == <<"https://www.loaded.com", app_id>>

ItadUuid(app_id) == <<"itad", app_id>>

Min(a, b) == IF a < b THEN a ELSE b

Max(a, b) == IF a < b THEN b ELSE a

\* Python int(n / d): truncation toward zero
Trunc(n, d) == IF n >= 0 THEN n \div d ELSE -((-n) \div d)

\* s with the elements of set S in ascending order of key TitleKey
RECURSIVE ByTitle(_)
ByTitle(S) ==
    IF S = {} THEN <<>>
    ELSE LET m == CHOOSE x \in S : \A y \in S : TitleKey(x) <= TitleKey(y)
         IN  <<m>> \o ByTitle(S \ {m})

SeqToSet(s) == {s[k] : k \in 1..Len(s)}

-----------------------------------------------------------------------------
(* The catalog store: database.py.  A store d is a record of the tables.   *)

DB == [games |-> games, prices |-> prices, price_history |-> price_history,
       historic_lows |-> historic_lows, bundles |-> bundles]

\* a table with no rows
NoRows == [x \in {} |-> 0]

EmptyDB == [games |-> NoRows, prices |-> NoRows, price_history |-> << >>,
            historic_lows |-> NoRows, bundles |-> << >>]

\* f with key k set to v (inserted when absent)
Put(f, k, v) == [x \in (DOMAIN f) \cup {k} |-> IF x = k THEN v ELSE f[x]]

\* f without the keys in K
Drop(f, K) == [x \in (DOMAIN f) \ K |-> f[x]]

get_all_games(d) == ByTitle(DOMAIN d.games)

\* upsert_game as INSERT OR REPLACE: the whole row is written anew
upsert_game_replaces_row(d, app_id, title, steam_url) ==
    [d EXCEPT !.games = Put(@, app_id,
        [title |-> title, steam_url |-> steam_url,
         itad_slug |-> NoSlug, last_checked |-> NeverChecked])]

upsert_game(d, app_id, title, steam_url) ==
    IF app_id \in DOMAIN d.games
    THEN [d EXCEPT !.games = [@ EXCEPT ![app_id].title = title,
                                       ![app_id].steam_url = steam_url]]
    ELSE [d EXCEPT !.games = Put(@, app_id,
              [title |-> title, steam_url |-> steam_url,
               itad_slug |-> NoSlug, last_checked |-> NeverChecked])]

update_itad_slug(d, app_id, slug) ==
    IF app_id \in DOMAIN d.games
    THEN [d EXCEPT !.games = [@ EXCEPT ![app_id].itad_slug = slug]]
    ELSE d

mark_game_checked(d, app_id) ==
    IF app_id \in DOMAIN d.games
    THEN [d EXCEPT !.games = [@ EXCEPT ![app_id].last_checked = Checked]]
    ELSE d

\* upsert_price that keeps one price_history row per (app_id, store)
upsert_price_one_history_row(d, app_id, store, price_current, price_regular, currency, discount_pct, url) ==
    [d EXCEPT
       !.prices = Put(@, <<app_id, store>>,
           [price_current |-> price_current, price_regular |-> price_regular,
            currency |-> currency, discount_pct |-> discount_pct,
            url |-> url]),
       !.price_history = Append(
           SelectSeq(@, LAMBDA h : ~(h.app_id = app_id /\ h.store = store)),
           [app_id |-> app_id, store |-> store, price |-> price_current,
            currency |-> currency, discount_pct |-> discount_pct])]

\* upsert_price that logs to price_history only when it inserts the row
upsert_price_logs_inserts_only(d, app_id, store, price_current, price_regular, currency, discount_pct, url) ==
    [d EXCEPT
       !.prices = Put(@, <<app_id, store>>,
           [price_current |-> price_current, price_regular |-> price_regular,
            currency |-> currency, discount_pct |-> discount_pct,
            url |-> url]),
       !.price_history =
           IF <<app_id, store>> \in DOMAIN d.prices THEN @
           ELSE Append(@,
                  [app_id |-> app_id, store |-> store, price |-> price_current,
                   currency |-> currency, discount_pct |-> discount_pct])]

\* upsert_price that first removes the item's rows of the other stores
upsert_price_replaces_item_rows(d, app_id, store, price_current, price_regular, currency, discount_pct, url) ==
    [d EXCEPT
       !.prices = Put(Drop(@, {k \in DOMAIN d.prices : k[1] = app_id}),
           <<app_id, store>>,
           [price_current |-> price_current, price_regular |-> price_regular,
            currency |-> currency, discount_pct |-> discount_pct,
            url |-> url]),
       !.price_history = Append(@,
           [app_id |-> app_id, store |-> store, price |-> price_current,
            currency |-> currency, discount_pct |-> discount_pct])]

\* upsert_price as INSERT OR IGNORE: an existing row of prices is kept
upsert_price_keeps_existing_row(d, app_id, store, price_current, price_regular, currency, discount_pct, url) ==
    [d EXCEPT
       !.prices =
           IF <<app_id, store>> \in DOMAIN d.prices THEN @
           ELSE Put(@, <<app_id, store>>,
                  [price_current |-> price_current,
                   price_regular |-> price_regular, currency |-> currency,
                   discount_pct |-> discount_pct, url |-> url]),
       !.price_history = Append(@,
           [app_id |-> app_id, store |-> store, price |-> price_current,
            currency |-> currency, discount_pct |-> discount_pct])]

\* the row of prices is inserted or overwritten in place, and one row is
\* appended to price_history
upsert_price(d, app_id, store, price_current, price_regular, currency, discount_pct, url) ==
    [d EXCEPT
       !.prices = Put(@, <<app_id, store>>,
           [price_current |-> price_current, price_regular |-> price_regular,
            currency |-> currency, discount_pct |-> discount_pct,
            url |-> url]),
       !.price_history = Append(@,
           [app_id |-> app_id, store |-> store, price |-> price_current,
            currency |-> currency, discount_pct |-> discount_pct])]

\* upsert_historic_low that overwrites whatever the stored price is
upsert_historic_low_overwrites(d, app_id, store, price, currency, discount_pct, recorded_date) ==
    [d EXCEPT !.historic_lows = Put(@, <<app_id, store>>,
        [price |-> price, currency |-> currency,
         discount_pct |-> discount_pct, recorded_at |-> recorded_date])]

upsert_historic_low(d, app_id, store, price, currency, discount_pct, recorded_date) ==
    LET k == <<app_id, store>> IN
    IF k \in DOMAIN d.historic_lows
    THEN IF price < d.historic_lows[k].price
         THEN [d EXCEPT !.historic_lows = [@ EXCEPT
                   ![k].price = price, ![k].discount_pct = discount_pct,
                   ![k].recorded_at = recorded_date]]
         ELSE d
    ELSE [d EXCEPT !.historic_lows = Put(@, k,
              [price |-> price, currency |-> currency,
               discount_pct |-> discount_pct,
               recorded_at |-> recorded_date])]

\* bundles has no uniqueness constraint, so INSERT OR IGNORE always inserts
upsert_bundle(d, app_id, bundle_title, store, tier_price, currency) ==
    [d EXCEPT !.bundles = Append(@,
        [app_id |-> app_id, bundle_title |-> bundle_title, store |-> store,
         tier_price |-> tier_price, currency |-> currency])]


\* DELETE FROM games with foreign_keys ON: prices, price_history and bundles
\* reference games ON DELETE CASCADE; historic_lows declares no reference
delete_game(d, app_id) ==
    [d EXCEPT
       !.games = Drop(@, {app_id}),
       !.prices = Drop(@, {k \in DOMAIN d.prices : k[1] = app_id}),
       !.price_history = SelectSeq(@, LAMBDA h : h.app_id # app_id),
       !.bundles = SelectSeq(@, LAMBDA b : b.app_id # app_id)]

-----------------------------------------------------------------------------
(* database.py: the reads.  SQL leaves the order of rows that tie on the   *)
(* ORDER BY keys open, so a read is the set of lists it can return.        *)

\* best_prices with rn = 1: the rows of prices of app_id with a price that
\* come first under ORDER BY discount_pct DESC, price_current ASC
BestPrices(d, app_id) ==
    LET q == {k \in DOMAIN d.prices :
                 k[1] = app_id /\ d.prices[k].price_current # NULL}
    IN  {k \in q : \A j \in q :
           ~ \/ d.prices[j].discount_pct > d.prices[k].discount_pct
             \/ /\ d.prices[j].discount_pct = d.prices[k].discount_pct
                /\ d.prices[j].price_current < d.prices[k].price_current}

\* lowest_recorded keeping the records of store "Historic Low" only
lowest_recorded_of_one_store(d, app_id) ==
    IF <<app_id, "Historic Low">> \in DOMAIN d.historic_lows
    THEN d.historic_lows[<<app_id, "Historic Low">>].price
    ELSE NULL

\* lowest_recorded: MIN(price) of historic_lows GROUP BY app_id (NULL when
\* the LEFT JOIN finds no group)
lowest_recorded(d, app_id) ==
    LET p == {d.historic_lows[k].price :
                 k \in {x \in DOMAIN d.historic_lows : x[1] = app_id}}
    IN  IF p = {} THEN NULL ELSE CHOOSE m \in p : \A x \in p : m <= x

\* the row SELECTed for the row k of best_prices
ReportRow(d, k) ==
    [app_id |-> k[1], title |-> d.games[k[1]].title, best_store |-> k[2],
     best_price |-> d.prices[k].price_current,
     currency |-> d.prices[k].currency,
     best_discount |-> d.prices[k].discount_pct,
     historic_low |-> lowest_recorded(d, k[1])]

\* games LEFT JOIN best_prices LEFT JOIN lowest_recorded WHERE bp.app_id IS
\* NOT NULL, ORDER BY discount_pct DESC, price_current ASC
get_deals_report(d) ==
    LET joined == {a \in DOMAIN d.games : BestPrices(d, a) # {}}
        rows == {ReportRow(d, k) :
                    k \in UNION {BestPrices(d, a) : a \in joined}}
    IN  {s \in [1..Cardinality(joined) -> rows] :
           /\ \A a \in joined : \E i \in DOMAIN s : s[i].app_id = a
           /\ \A i, j \in DOMAIN s :
                 i < j =>
                    \/ s[i].best_discount > s[j].best_discount
                    \/ /\ s[i].best_discount = s[j].best_discount
                       /\ s[i].best_price <= s[j].best_price}

\* the row SELECTed for the row k of prices
PriceRow(d, k) ==
    [store |-> k[2], price_current |-> d.prices[k].price_current,
     price_regular |-> d.prices[k].price_regular,
     currency |-> d.prices[k].currency,
     discount_pct |-> d.prices[k].discount_pct, url |-> d.prices[k].url]

\* SELECT ... FROM prices WHERE app_id = ? ORDER BY price_current ASC
get_all_prices_for_game(d, app_id) ==
    LET q == {k \in DOMAIN d.prices : k[1] = app_id}
        rows == {PriceRow(d, k) : k \in q}
    IN  {s \in [1..Cardinality(q) -> rows] :
           /\ \A r \in rows : \E i \in DOMAIN s : s[i] = r
           /\ \A i, j \in DOMAIN s :
                 i < j => s[i].price_current <= s[j].price_current}

-----------------------------------------------------------------------------
(* itad.py: the discount recompute pass *)

\* int(((steam_baseline - current_price) / steam_baseline) * 100), clamped
RecalcDiscount(steam_baseline, current_price) ==
    Max(0, Min(100, Trunc(100 * (steam_baseline - current_price),
                          steam_baseline)))

\* the pass, also setting each row's price_regular to its price_current
_recalculate_discounts_rebasing(d, app_id) ==
    LET sk == <<app_id, "Steam">> IN
    IF sk \notin DOMAIN d.prices \/ d.prices[sk].price_regular <= 0
    THEN d
    ELSE [d EXCEPT !.prices =
            [k \in DOMAIN d.prices |->
               IF k[1] = app_id /\ d.prices[k].price_current >= 0
               THEN [d.prices[k] EXCEPT
                       !.discount_pct =
                          RecalcDiscount(d.prices[sk].price_regular,
                                         d.prices[k].price_current),
                       !.price_regular = d.prices[k].price_current]
               ELSE d.prices[k]]]

\* the pass, using each row's own price_regular whatever the Steam row is
_recalculate_discounts_from_own_regular(d, app_id) ==
    [d EXCEPT !.prices =
       [k \in DOMAIN d.prices |->
          IF k[1] = app_id /\ d.prices[k].price_regular > 0
          THEN [d.prices[k] EXCEPT !.discount_pct =
                   RecalcDiscount(d.prices[k].price_regular,
                                  d.prices[k].price_current)]
          ELSE d.prices[k]]]

_recalculate_discounts_from_steam(d, app_id) ==
    LET sk == <<app_id, "Steam">> IN
    IF \/ sk \notin DOMAIN d.prices
       \/ d.prices[sk].price_regular = NULL
       \/ d.prices[sk].price_regular = 0
       \/ d.prices[sk].price_regular <= 0
    THEN d
    ELSE LET steam_baseline == d.prices[sk].price_regular IN
         [d EXCEPT !.prices =
            [k \in DOMAIN d.prices |->
               IF /\ k[1] = app_id
                  /\ d.prices[k].price_current # NULL
                  /\ d.prices[k].price_current >= 0
               THEN [d.prices[k] EXCEPT !.discount_pct =
                        RecalcDiscount(steam_baseline,
                                       d.prices[k].price_current)]
               ELSE d.prices[k]]]

-----------------------------------------------------------------------------
(* steam.py: the Wishlist source *)

\* the wishlist API answers with a list of app ids, or the request fails
WishlistResponses ==
    {[raised |-> TRUE, app_ids |-> << >>], [raised |-> FALSE, app_ids |-> << >>]}
    \cup {[raised |-> FALSE, app_ids |-> <<a>>] : a \in Items}
    \cup {[raised |-> FALSE, app_ids |-> <<q[1], q[2]>>] :
             q \in {r \in Items \X Items : r[1] # r[2]}}

\* the store API answer for one app: a failed request ("raise"), no game
\* ("none"), or a game whose price_overview holds final and initial (pence)
NoDetails == [kind |-> "none", final |-> NULL, initial |-> NULL]

DetailsResponses ==
    {NoDetails, [kind |-> "raise", final |-> NULL, initial |-> NULL]}
    \cup {[kind |-> "game", final |-> q[1], initial |-> q[2]] :
            q \in {<<NULL, NULL>>, <<800, NULL>>, <<800, 1000>>, <<0, 0>>}}

\* price_gbp and price_original_gbp of the details dict
fetch_app_details(resp) ==
    IF resp.initial = NULL
    THEN [price_gbp |-> NULL, price_original_gbp |-> NULL]
    ELSE [price_gbp |-> resp.final, price_original_gbp |-> resp.initial]

\* Python's x or y on prices: y when x is None or 0
PyOr(x, y) == IF x = NULL \/ x = 0 THEN y ELSE x

\* the loop over new_ids; an exception of fetch_app_details leaves the loop
RECURSIVE SaveNewGames(_, _, _)
SaveNewGames(d, new_ids, det) ==
    IF new_ids = << >> THEN [db |-> d, raised |-> FALSE]
    ELSE LET app_id == Head(new_ids)
             resp == det[app_id]
             details == fetch_app_details(resp)
             d1 == upsert_game(d, app_id, Title(app_id), SteamUrl(app_id))
             d2 == IF details.price_gbp # NULL
                   THEN upsert_price(d1, app_id, "Steam", details.price_gbp,
                            PyOr(details.price_original_gbp, details.price_gbp),
                            "GBP", 0, SteamUrl(app_id))
                   ELSE d1
         IN  IF resp.kind = "raise" THEN [db |-> d, raised |-> TRUE]
             ELSE IF resp.kind = "none"
                  THEN SaveNewGames(d, Tail(new_ids), det)
                  ELSE SaveNewGames(d2, Tail(new_ids), det)

\* sync_wishlist that fetches and saves every item of the wishlist, known
\* or new
sync_wishlist_refreshing_known(d, wl, det) ==
    IF wl.raised THEN [db |-> d, raised |-> TRUE]
    ELSE IF wl.app_ids = << >> THEN [db |-> d, raised |-> FALSE]
    ELSE SaveNewGames(d, wl.app_ids, det)

sync_wishlist(d, wl, det) ==
    IF wl.raised THEN [db |-> d, raised |-> TRUE]
    ELSE IF wl.app_ids = << >> THEN [db |-> d, raised |-> FALSE]
    ELSE LET existing == DOMAIN d.games
             new_ids == SelectSeq(wl.app_ids, LAMBDA a : a \notin existing)
         IN  SaveNewGames(d, new_ids, det)

-----------------------------------------------------------------------------
(* loaded_bs4.py and sync_loaded_helper.py: the retailer source *)

\* what one request for a product page gives: the HTTP status (0 for a
\* timeout or connection error), and for a 200 the prices of the markup
\* (.final-price, .old-price; NULL when absent) or a sold-out badge
Page(status, final_price, old_price, sold_out) ==
    [status |-> status, final_price |-> final_price, old_price |-> old_price,
     sold_out |-> sold_out]

NotFound == Page(404, NULL, NULL, FALSE)

Forbidden == Page(403, NULL, NULL, FALSE)

\* pages that give no quote without a rate-limit signal
NoDataPages ==
    {NotFound, Page(0, NULL, NULL, FALSE), Page(200, 894, NULL, TRUE),
     Page(200, NULL, NULL, FALSE)}

\* pages with a price: 8.94 (was 18.00), 12.00 (was 10.00)
QuotePages == {Page(200, 894, 1800, FALSE), Page(200, 1200, 1000, FALSE)}

LoadedPages == QuotePages \cup NoDataPages \cup {Forbidden}

\* (current_price, regular_price, discount_pct) of a product page
_extract_prices_from_html(page) ==
    LET current_price == page.final_price
        regular_price == IF PyOr(page.old_price, NULL) = NULL
                         THEN current_price ELSE page.old_price
    IN  IF page.sold_out \/ PyOr(current_price, NULL) = NULL
        THEN [current_price |-> NULL, regular_price |-> NULL,
              discount_pct |-> 0]
        ELSE [current_price |-> current_price,
              regular_price |-> regular_price,
              discount_pct |->
                 IF regular_price > 0
                 THEN Trunc((regular_price - current_price) * 100,
                            regular_price)
                 ELSE 0]

\* the module globals _min_delay_seconds and _consecutive_errors
InitRateLimit == [min_delay_seconds |-> 1, consecutive_errors |-> 0]

_handle_rate_limit_error(rl) ==
    LET n == rl.consecutive_errors + 1 IN
    [min_delay_seconds |-> IF n = 1 THEN 5
                           ELSE IF n = 2 THEN 15
                           ELSE IF n = 3 THEN 30 ELSE 60,
     consecutive_errors |-> n]

_reset_rate_limit_on_success(rl) ==
    IF rl.consecutive_errors > 0
    THEN [rl EXCEPT !.consecutive_errors = 0]
    ELSE rl

NoResult == [price |-> NULL, regular_price |-> NULL, discount_pct |-> 0]

\* scrape_game_price that answers a rate-limit signal with a zero price
scrape_game_price_zero_on_failure(rl, page) ==
    IF page.status = 404 THEN [result |-> NoResult, rl |-> rl]
    ELSE IF page.status = 403
    THEN [result |-> [price |-> 0, regular_price |-> 0, discount_pct |-> 0],
          rl |-> _handle_rate_limit_error(rl)]
    ELSE IF page.status # 200 THEN [result |-> NoResult, rl |-> rl]
    ELSE LET x == _extract_prices_from_html(page) IN
         IF x.current_price = NULL THEN [result |-> NoResult, rl |-> rl]
         ELSE [result |-> [price |-> x.current_price,
                           regular_price |-> x.regular_price,
                           discount_pct |-> x.discount_pct],
               rl |-> _reset_rate_limit_on_success(rl)]

\* the result dict (NoResult for None) and the rate-limit globals after it
scrape_game_price(rl, page) ==
    IF page.status = 404 THEN [result |-> NoResult, rl |-> rl]
    ELSE IF page.status = 403
    THEN [result |-> NoResult, rl |-> _handle_rate_limit_error(rl)]
    ELSE IF page.status # 200 THEN [result |-> NoResult, rl |-> rl]
    ELSE LET x == _extract_prices_from_html(page) IN
         IF x.current_price = NULL THEN [result |-> NoResult, rl |-> rl]
         ELSE [result |-> [price |-> x.current_price,
                           regular_price |-> x.regular_price,
                           discount_pct |-> x.discount_pct],
               rl |-> _reset_rate_limit_on_success(rl)]

\* a request that ends in a timeout or a connection error
Transient(page) == page.status = 0

\* scrape_game_price makes one request for the product page and returns None
\* from its except clauses: of the answers the site gives to successive
\* requests, it gets the first
AnswerGot(answers) == Head(answers)

\* the loop of sync_loaded over the games, in title order
RECURSIVE ScrapeGames(_, _, _, _)
ScrapeGames(d, rl, todo, pages) ==
    IF todo = << >> THEN [db |-> d, rl |-> rl]
    ELSE LET app_id == Head(todo)
             s == scrape_game_price(rl, pages[app_id])
             d1 == IF s.result.price # NULL
                   THEN upsert_price(d, app_id, "Loaded", s.result.price,
                            s.result.regular_price, "GBP",
                            s.result.discount_pct, LoadedUrl(app_id))
                   ELSE d
         IN  ScrapeGames(d1, s.rl, Tail(todo), pages)

sync_loaded(d, rl, pages) == ScrapeGames(d, rl, get_all_games(d), pages)

-----------------------------------------------------------------------------
(* itad.py: the price-comparison source *)

NeedsLookup(d) == {a \in DOMAIN d.games : d.games[a].itad_slug = NoSlug}

Mapped(d) == {a \in DOMAIN d.games : d.games[a].itad_slug # NoSlug}

\* the deals ITAD lists for one game: none, one without an amount, one priced
DealLists ==
    {<< >>, <<[shop |-> "GOG", amount |-> NULL]>>,
     <<[shop |-> "GOG", amount |-> 1200]>>}

\* historyLow.all.amount for one game (NULL: no historic low in the answer)
LowAmounts == {NULL, 0, 500, 700}

\* the bundles ITAD lists for one game
BundleLists == {<< >>, <<[title |-> "Humble Choice", tier_price |-> 900]>>}

\* each deal with an amount is saved by upsert_price(..., drm=drm_str);
\* database.upsert_price has no parameter drm, so that call raises TypeError
\* before it writes anything
SavesADeal(deals) == \E k \in 1..Len(deals) : deals[k].amount # NULL

SaveHistoricLow(d, app_id, lows) ==
    IF lows[app_id] = NULL \/ lows[app_id] = 0 THEN d
    ELSE upsert_historic_low(d, app_id, "Historic Low", lows[app_id],
                             "GBP", 0, "")

RECURSIVE SaveBundleList(_, _, _)
SaveBundleList(d, app_id, bundle_list) ==
    IF bundle_list = << >> THEN d
    ELSE SaveBundleList(
             upsert_bundle(d, app_id, Head(bundle_list).title, "bundle",
                           Head(bundle_list).tier_price, "USD"),
             app_id, Tail(bundle_list))

\* inp: the answers of the lookup, prices/v3 and overview/v2 endpoints
sync_prices(d, inp) ==
    LET needs_lookup == NeedsLookup(d)
        matched == ByTitle(needs_lookup \cap inp.matched)
        slugs[k \in 0..Len(matched)] ==
            IF k = 0 THEN d
            ELSE update_itad_slug(slugs[k - 1], matched[k],
                                  ItadUuid(matched[k]))
        d1 == slugs[Len(matched)]
        steam_to_itad == ByTitle(Mapped(d1))
        n == Len(steam_to_itad)
        lows[k \in 0..n] ==
            IF k = 0 THEN d1
            ELSE SaveHistoricLow(lows[k - 1], steam_to_itad[k], inp.lows)
        bundled[k \in 0..n] ==
            IF k = 0 THEN lows[n]
            ELSE SaveBundleList(bundled[k - 1], steam_to_itad[k],
                                inp.bundles[steam_to_itad[k]])
        recalculated[k \in 0..n] ==
            IF k = 0 THEN bundled[n]
            ELSE _recalculate_discounts_from_steam(recalculated[k - 1],
                                                   steam_to_itad[k])
        checked[k \in 0..n] ==
            IF k = 0 THEN recalculated[n]
            ELSE mark_game_checked(checked[k - 1], steam_to_itad[k])
    IN  IF DOMAIN d.games = {} THEN [db |-> d, raised |-> FALSE]
        ELSE IF needs_lookup # {} /\ inp.lookup_raised
        THEN [db |-> d, raised |-> TRUE]
        ELSE IF steam_to_itad = << >> THEN [db |-> d1, raised |-> FALSE]
        ELSE IF \E a \in Mapped(d1) : SavesADeal(inp.deals[a])
        THEN [db |-> d1, raised |-> TRUE]
        ELSE [db |-> checked[n], raised |-> FALSE]

\* the functions on Items that take values of V on S and dflt elsewhere
FnOver(S, V, dflt) ==
    {[a \in Items |-> IF a \in S THEN f[a] ELSE dflt] : f \in [S -> V]}

\* the answers sync_prices can get in store d (parts it does not read are
\* left at their defaults)
LookupAnswers(d) ==
    IF NeedsLookup(d) = {}
    THEN {[lookup_raised |-> FALSE, matched |-> {}]}
    ELSE {[lookup_raised |-> TRUE, matched |-> {}]}
         \cup {[lookup_raised |-> FALSE, matched |-> M] :
                 M \in SUBSET NeedsLookup(d)}

ItadAnswers(d, e) ==
    UNION {
      LET m == IF lk.lookup_raised THEN {}
               ELSE Mapped(d) \cup lk.matched
      IN UNION {
           IF \E a \in m : SavesADeal(deals[a])
           THEN {[lookup_raised |-> lk.lookup_raised, matched |-> lk.matched,
                  deals |-> deals, lows |-> [a \in Items |-> NULL],
                  bundles |-> [a \in Items |-> << >>]]}
           ELSE {[lookup_raised |-> lk.lookup_raised, matched |-> lk.matched,
                  deals |-> deals, lows |-> lows, bundles |-> bl] :
                    lows \in FnOver(m, e.lows, NULL),
                    bl \in FnOver(m, e.bundle_lists, << >>)}
           : deals \in FnOver(m, e.deals, << >>)}
      : lk \in LookupAnswers(d)}

-----------------------------------------------------------------------------
(* The environments: what the sources can answer during one behaviour *)

\* two wishlisted games; the sources answer with quotes only
EnvQuotes ==
    [items |-> Items, details |-> DetailsResponses, deals |-> DealLists,
     lows |-> {NULL}, bundle_lists |-> {<< >>},
     pages |-> QuotePages \cup NoDataPages]

\* one wishlisted game; every source answers with all it can
EnvSingle ==
    [items |-> {570}, details |-> DetailsResponses, deals |-> DealLists,
     lows |-> LowAmounts, bundle_lists |-> BundleLists,
     pages |-> LoadedPages]

-----------------------------------------------------------------------------
(* The operations, called in any order *)

NoError == ""

NoLows == [a \in Items |-> NULL]

Start ==
    /\ games = EmptyDB.games
    /\ prices = EmptyDB.prices
    /\ price_history = EmptyDB.price_history
    /\ historic_lows = EmptyDB.historic_lows
    /\ bundles = EmptyDB.bundles
    /\ rate_limit = InitRateLimit
    /\ sync_status = [running |-> FALSE, step |-> "", error |-> NoError,
                      done |-> FALSE]
    /\ threads = NoRows
    /\ last = [op |-> "init", raised |-> FALSE, lows |-> NoLows]

Init == Start /\ env \in {EnvQuotes, EnvSingle}

\* the bounds of the model on a store
WithinBounds(d, rl) ==
    /\ Len(d.price_history) <= MaxHistory
    /\ Len(d.bundles) <= MaxBundles
    /\ rl.consecutive_errors <= MaxErrors

SetDB(d) ==
    /\ games' = d.games
    /\ prices' = d.prices
    /\ price_history' = d.price_history
    /\ historic_lows' = d.historic_lows
    /\ bundles' = d.bundles

\* the wishlist answers and, for the new games, the details answers
WishlistAnswers(d, e) ==
    UNION {{[wl |-> wl, det |-> det] :
              det \in FnOver(SeqToSet(wl.app_ids) \ DOMAIN d.games,
                             e.details, NoDetails)}
           : wl \in {w \in WishlistResponses :
                        SeqToSet(w.app_ids) \subseteq e.items}}

SyncWishlist ==
    \E inp \in WishlistAnswers(DB, env) :
       LET r == sync_wishlist(DB, inp.wl, inp.det) IN
       /\ WithinBounds(r.db, rate_limit)
       /\ SetDB(r.db)
       /\ last' = [op |-> "sync_wishlist", raised |-> r.raised,
                   lows |-> NoLows]
       /\ UNCHANGED <<rate_limit, sync_status, threads, env>>

SyncPrices ==
    \E inp \in ItadAnswers(DB, env) :
       LET r == sync_prices(DB, inp) IN
       /\ WithinBounds(r.db, rate_limit)
       /\ SetDB(r.db)
       /\ last' = [op |-> "sync_prices", raised |-> r.raised,
                   lows |-> inp.lows]
       /\ UNCHANGED <<rate_limit, sync_status, threads, env>>

SyncLoaded ==
    \E pages \in FnOver(DOMAIN games, env.pages, NotFound) :
       LET r == sync_loaded(DB, rate_limit, pages) IN
       /\ WithinBounds(r.db, r.rl)
       /\ SetDB(r.db)
       /\ rate_limit' = r.rl
       /\ last' = [op |-> "sync_loaded", raised |-> FALSE, lows |-> NoLows]
       /\ UNCHANGED <<sync_status, threads, env>>

Next == SyncWishlist \/ SyncPrices \/ SyncLoaded

Spec == Init /\ [][Next]_vars

-----------------------------------------------------------------------------
(* app.py: POST /api/sync/full and the background thread of run_full_sync. *)
(* A thread is a record of its position in run_full_sync and its itad_key  *)
(* argument (TRUE: a key was given).                                       *)

\* one wishlisted game; the sources answer with quotes, a historic low or a
\* rate-limit signal
EnvWeb ==
    [items |-> {570}, details |-> DetailsResponses, deals |-> DealLists,
     lows |-> {NULL, 500}, bundle_lists |-> {<< >>},
     pages |-> QuotePages \cup {NotFound, Forbidden}]

InitWeb == Start /\ env = EnvWeb

Running == [running |-> TRUE, step |-> "Steam wishlist", error |-> NoError,
            done |-> FALSE]

Done == [running |-> FALSE, step |-> "Done", error |-> NoError, done |-> TRUE]

Failed == [running |-> FALSE, step |-> "", error |-> "str(e)", done |-> TRUE]

\* the threads that have entered run_full_sync and not left it
InFlight == {t \in DOMAIN threads : threads[t].pc \in {"wishlist", "itad", "loaded"}}

\* the request: 409 while sync_status says running, 400 without the Steam
\* credentials, otherwise a thread is started and the handler returns
api_sync_full ==
    \E credentials \in BOOLEAN, itad_key \in BOOLEAN :
       LET code == IF sync_status.running THEN 409
                   ELSE IF ~credentials THEN 400 ELSE 200
       IN
       /\ code = 200 => Cardinality(DOMAIN threads) < MaxThreads
       /\ threads' = IF code = 200
                     THEN Put(threads, Cardinality(DOMAIN threads) + 1,
                              [pc |-> "start", itad_key |-> itad_key])
                     ELSE threads
       /\ last' = [op |-> "api_sync_full", raised |-> code # 200,
                   lows |-> NoLows]
       /\ last' # last \/ threads' # threads
       /\ UNCHANGED <<games, prices, price_history, historic_lows, bundles,
                      rate_limit, sync_status, env>>

\* the first statement of run_full_sync
run_full_sync_start(t) ==
    /\ threads[t].pc = "start"
    /\ sync_status' = Running
    /\ threads' = [threads EXCEPT ![t].pc = "wishlist"]
    /\ last' = [op |-> "run_full_sync", raised |-> FALSE, lows |-> NoLows]
    /\ UNCHANGED <<games, prices, price_history, historic_lows, bundles,
                   rate_limit, env>>

\* run_full_sync without its outer except clause: an exception of
\* sync_wishlist ends the thread and sync_status stays as it is
run_full_sync_wishlist_uncaught(t) ==
    /\ threads[t].pc = "wishlist"
    /\ \E inp \in WishlistAnswers(DB, env) :
          LET r == sync_wishlist(DB, inp.wl, inp.det) IN
          /\ WithinBounds(r.db, rate_limit)
          /\ SetDB(r.db)
          /\ last' = [op |-> "sync_wishlist", raised |-> r.raised,
                      lows |-> NoLows]
          /\ IF r.raised
             THEN /\ sync_status' = sync_status
                  /\ threads' = [threads EXCEPT ![t].pc = "done"]
             ELSE IF threads[t].itad_key
             THEN /\ sync_status' = [sync_status EXCEPT !.step = "ITAD prices"]
                  /\ threads' = [threads EXCEPT ![t].pc = "itad"]
             ELSE /\ sync_status' =
                        [sync_status EXCEPT !.step = "Loaded.com prices"]
                  /\ threads' = [threads EXCEPT ![t].pc = "loaded"]
    /\ UNCHANGED <<rate_limit, env>>

\* sync_wishlist; its exception ends the run with the error status
run_full_sync_wishlist(t) ==
    /\ threads[t].pc = "wishlist"
    /\ \E inp \in WishlistAnswers(DB, env) :
          LET r == sync_wishlist(DB, inp.wl, inp.det) IN
          /\ WithinBounds(r.db, rate_limit)
          /\ SetDB(r.db)
          /\ last' = [op |-> "sync_wishlist", raised |-> r.raised,
                      lows |-> NoLows]
          /\ IF r.raised
             THEN /\ sync_status' = Failed
                  /\ threads' = [threads EXCEPT ![t].pc = "done"]
             ELSE IF threads[t].itad_key
             THEN /\ sync_status' = [sync_status EXCEPT !.step = "ITAD prices"]
                  /\ threads' = [threads EXCEPT ![t].pc = "itad"]
             ELSE /\ sync_status' =
                        [sync_status EXCEPT !.step = "Loaded.com prices"]
                  /\ threads' = [threads EXCEPT ![t].pc = "loaded"]
    /\ UNCHANGED <<rate_limit, env>>

\* sync_prices inside its own try: an exception sets the step to
\* "ITAD skipped (see terminal)", and the next statement overwrites it
run_full_sync_prices(t) ==
    /\ threads[t].pc = "itad"
    /\ \E inp \in ItadAnswers(DB, env) :
          LET r == sync_prices(DB, inp) IN
          /\ WithinBounds(r.db, rate_limit)
          /\ SetDB(r.db)
          /\ last' = [op |-> "sync_prices", raised |-> r.raised,
                      lows |-> inp.lows]
    /\ sync_status' = [sync_status EXCEPT !.step = "Loaded.com prices"]
    /\ threads' = [threads EXCEPT ![t].pc = "loaded"]
    /\ UNCHANGED <<rate_limit, env>>

\* sync_loaded, then the final status
run_full_sync_loaded(t) ==
    /\ threads[t].pc = "loaded"
    /\ \E pages \in FnOver(DOMAIN games, env.pages, NotFound) :
          \E r \in {sync_loaded(DB, rate_limit, pages)} :
          /\ WithinBounds(r.db, r.rl)
          /\ SetDB(r.db)
          /\ rate_limit' = r.rl
    /\ last' = [op |-> "sync_loaded", raised |-> FALSE, lows |-> NoLows]
    /\ sync_status' = Done
    /\ threads' = [threads EXCEPT ![t].pc = "done"]
    /\ UNCHANGED env

NextWeb ==
    \/ api_sync_full
    \/ \E t \in DOMAIN threads : run_full_sync_start(t)
    \/ \E t \in DOMAIN threads : run_full_sync_wishlist(t)
    \/ \E t \in DOMAIN threads : run_full_sync_prices(t)
    \/ \E t \in DOMAIN threads : run_full_sync_loaded(t)

SpecWeb == InitWeb /\ [][NextWeb]_vars

\* a step of a started thread.  Every request of the syncs has a timeout
\* and every loop runs over a finite list, so while a thread is inside
\* run_full_sync one of the threads goes on to take its next step.
run_full_sync ==
    \E t \in DOMAIN threads :
       \/ run_full_sync_start(t)
       \/ run_full_sync_wishlist(t)
       \/ run_full_sync_prices(t)
       \/ run_full_sync_loaded(t)

\* one wishlisted game; each source either answers with a quote or fails:
\* the store API raises, a priced deal makes sync_prices raise, the
\* retailer answers 403
EnvFailures ==
    [items |-> {570},
     details |-> {[kind |-> "raise", final |-> NULL, initial |-> NULL],
                  [kind |-> "game", final |-> 800, initial |-> 1000]},
     deals |-> {<<[shop |-> "GOG", amount |-> 1200]>>},
     lows |-> {NULL}, bundle_lists |-> {<< >>},
     pages |-> {Page(200, 894, 1800, FALSE), Forbidden}]

InitWebFair == Start /\ env = EnvFailures

SpecWebFair ==
    /\ InitWebFair /\ [][NextWeb]_vars
    /\ WF_vars(run_full_sync)

-----------------------------------------------------------------------------
(* database.py and the recompute pass of itad.py, called one function at a *)
(* time on games that exist.                                               *)

\* the arguments (store, price_current, price_regular, discount_pct) the
\* calls of upsert_price are made with
Quote(store, price_current, price_regular, discount_pct) ==
    [store |-> store, price_current |-> price_current,
     price_regular |-> price_regular, discount_pct |-> discount_pct]

\* the functions called, and the quotes, low prices and bundle titles given
EnvStoreQuotes ==
    [calls |-> {"upsert_game", "upsert_price",
                "_recalculate_discounts_from_steam", "delete_game"},
     quotes |-> {Quote("Steam", 800, 1000, 0), Quote("Steam", 0, 0, 0),
                 Quote("Loaded", 894, 1800, 50),
                 Quote("Loaded", 1200, 1000, -20)},
     low_prices |-> {}, low_stores |-> {}, bundle_titles |-> {}]

EnvStoreRecords ==
    [calls |-> {"upsert_game", "upsert_price", "upsert_historic_low",
                "upsert_bundle", "delete_game"},
     quotes |-> {Quote("Steam", 800, 1000, 0)},
     low_prices |-> {500, 700}, low_stores |-> {"Historic Low", "GOG"},
     bundle_titles |-> {"Humble Choice"}]

InitStore == Start /\ env \in {EnvStoreQuotes, EnvStoreRecords}

\* the call made in a step
Call(op, app_id, store) ==
    [op |-> op, raised |-> FALSE, lows |-> NoLows, app_id |-> app_id,
     store |-> store]

UpsertGame ==
    /\ "upsert_game" \in env.calls
    /\ \E app_id \in Items :
          /\ SetDB(upsert_game(DB, app_id, Title(app_id), SteamUrl(app_id)))
          /\ last' = Call("upsert_game", app_id, "")
    /\ UNCHANGED <<rate_limit, sync_status, threads, env>>

UpsertPrice ==
    /\ "upsert_price" \in env.calls
    /\ \E app_id \in DOMAIN games, q \in env.quotes :
          LET d == upsert_price(DB, app_id, q.store, q.price_current,
                                q.price_regular, "GBP", q.discount_pct,
                                SteamUrl(app_id))
          IN  /\ WithinBounds(d, rate_limit)
              /\ SetDB(d)
              /\ last' = Call("upsert_price", app_id, q.store)
    /\ UNCHANGED <<rate_limit, sync_status, threads, env>>

UpsertHistoricLow ==
    /\ "upsert_historic_low" \in env.calls
    /\ \E app_id \in DOMAIN games, price \in env.low_prices,
          store \in env.low_stores :
          /\ SetDB(upsert_historic_low(DB, app_id, store, price,
                                       "GBP", 0, ""))
          /\ last' = Call("upsert_historic_low", app_id, store)
    /\ UNCHANGED <<rate_limit, sync_status, threads, env>>

UpsertBundle ==
    /\ "upsert_bundle" \in env.calls
    /\ \E app_id \in DOMAIN games, bundle_title \in env.bundle_titles :
          LET d == upsert_bundle(DB, app_id, bundle_title, "bundle", 900,
                                 "USD")
          IN  /\ WithinBounds(d, rate_limit)
              /\ SetDB(d)
              /\ last' = Call("upsert_bundle", app_id, "bundle")
    /\ UNCHANGED <<rate_limit, sync_status, threads, env>>

RecalculateDiscounts ==
    /\ "_recalculate_discounts_from_steam" \in env.calls
    /\ \E app_id \in DOMAIN games :
          /\ SetDB(_recalculate_discounts_from_steam(DB, app_id))
          /\ last' = Call("_recalculate_discounts_from_steam", app_id, "")
    /\ UNCHANGED <<rate_limit, sync_status, threads, env>>

\* DELETE /api/game/<app_id>
api_delete_game ==
    /\ "delete_game" \in env.calls
    /\ \E app_id \in Items :
          /\ SetDB(delete_game(DB, app_id))
          /\ last' = Call("delete_game", app_id, "")
    /\ UNCHANGED <<rate_limit, sync_status, threads, env>>

NextStore ==
    \/ UpsertGame
    \/ UpsertPrice
    \/ UpsertHistoricLow
    \/ UpsertBundle
    \/ RecalculateDiscounts
    \/ api_delete_game

SpecStore == InitStore /\ [][NextStore]_vars

-----------------------------------------------------------------------------
(* main.py: the sync command.  Each run is a process of its own, so it     *)
(* starts with loaded_bs4's globals at their initial values; the runs are  *)
(* made one after the other.                                               *)

InitCli == Start /\ env = EnvWeb

\* the run has ended: it returned, or an exception left cmd_sync
Ended(run) == run.pc \in {"done", "raised in sync_wishlist", "raised in sync_prices"}

\* the start of cmd_sync: sys.exit(1) without the Steam credentials
cmd_sync_start ==
    \E credentials \in BOOLEAN, itad_key \in BOOLEAN :
       /\ \A t \in DOMAIN threads : Ended(threads[t])
       /\ Cardinality(DOMAIN threads) < MaxThreads
       /\ threads' = IF credentials
                     THEN Put(threads, Cardinality(DOMAIN threads) + 1,
                              [pc |-> "wishlist", itad_key |-> itad_key])
                     ELSE threads
       /\ last' = [op |-> "cmd_sync", raised |-> ~credentials,
                   lows |-> NoLows]
       /\ last' # last \/ threads' # threads
       /\ UNCHANGED <<games, prices, price_history, historic_lows, bundles,
                      rate_limit, sync_status, env>>

\* step 1: sync_wishlist, outside any try
cmd_sync_wishlist(t) ==
    /\ threads[t].pc = "wishlist"
    /\ \E inp \in WishlistAnswers(DB, env) :
          LET r == sync_wishlist(DB, inp.wl, inp.det) IN
          /\ WithinBounds(r.db, rate_limit)
          /\ SetDB(r.db)
          /\ last' = [op |-> "sync_wishlist", raised |-> r.raised,
                      lows |-> NoLows]
          /\ threads' = [threads EXCEPT ![t].pc =
                IF r.raised THEN "raised in sync_wishlist"
                ELSE IF threads[t].itad_key THEN "itad" ELSE "loaded"]
    /\ UNCHANGED <<rate_limit, sync_status, env>>

\* step 2: sync_prices, outside any try
cmd_sync_prices(t) ==
    /\ threads[t].pc = "itad"
    /\ \E inp \in ItadAnswers(DB, env) :
          LET r == sync_prices(DB, inp) IN
          /\ WithinBounds(r.db, rate_limit)
          /\ SetDB(r.db)
          /\ last' = [op |-> "sync_prices", raised |-> r.raised,
                      lows |-> inp.lows]
          /\ threads' = [threads EXCEPT ![t].pc =
                IF r.raised THEN "raised in sync_prices" ELSE "loaded"]
    /\ UNCHANGED <<rate_limit, sync_status, env>>

\* step 3: sync_loaded inside a try, then "Sync complete!"
cmd_sync_loaded(t) ==
    /\ threads[t].pc = "loaded"
    /\ \E pages \in FnOver(DOMAIN games, env.pages, NotFound) :
          LET r == sync_loaded(DB, InitRateLimit, pages) IN
          /\ WithinBounds(r.db, r.rl)
          /\ SetDB(r.db)
          /\ rate_limit' = r.rl
    /\ last' = [op |-> "sync_loaded", raised |-> FALSE, lows |-> NoLows]
    /\ threads' = [threads EXCEPT ![t].pc = "done"]
    /\ UNCHANGED <<sync_status, env>>

NextCli ==
    \/ cmd_sync_start
    \/ \E t \in DOMAIN threads : cmd_sync_wishlist(t)
    \/ \E t \in DOMAIN threads : cmd_sync_prices(t)
    \/ \E t \in DOMAIN threads : cmd_sync_loaded(t)

SpecCli == InitCli /\ [][NextCli]_vars

-----------------------------------------------------------------------------
(* Properties of the syncs *)

SyncOps == {"sync_wishlist", "sync_prices", "sync_loaded"}

Stores == {"Steam", "Loaded", "GOG"}

Pairs == Items \X Stores

PairOf(h) == <<h.app_id, h.store>>

\* the rows of price_history for pair k
HistoryOf(k) == {i \in 1..Len(price_history) : PairOf(price_history[i]) = k}

\* the rows a step has appended to price_history for pair k
AppendedFor(k) ==
    {i \in (Len(price_history) + 1)..Len(price_history') :
        PairOf(price_history'[i]) = k}

\* a step has inserted the current quote of pair k, or has changed one of
\* its observed fields
QuoteWritten(k) ==
    /\ k \in DOMAIN prices'
    /\ \/ k \notin DOMAIN prices
       \/ prices'[k].price_current # prices[k].price_current
       \/ prices'[k].price_regular # prices[k].price_regular
       \/ prices'[k].currency # prices[k].currency
       \/ prices'[k].url # prices[k].url

\* C1: across the syncs price_history only grows at its end: every row
\* stays at its place with its values, whether the sync returns or raises.
HistoryAppendOnly ==
    [][last'.op \in SyncOps =>
          /\ Len(price_history') >= Len(price_history)
          /\ \A i \in 1..Len(price_history) :
                price_history'[i] = price_history[i]]_vars

\* a sync has failed at a time when the history holds rows
HistoryKeptOnFailure ==
    last.op \in SyncOps /\ last.raised /\ Len(price_history) > 0

\* C2 as claimed: every step that changes a row of prices appends exactly
\* one row of price_history for the same (item, store).
EveryPriceWriteLogged ==
    [][\A k \in Pairs :
          (k \in DOMAIN prices'
             /\ (k \notin DOMAIN prices \/ prices'[k] # prices[k]))
          => Cardinality(AppendedFor(k)) = 1]_vars

\* C2 as amended: a sync appends at most one history row per (item, store);
\* it appends one, with the price written, when it inserts the quote or
\* changes one of its observed fields; and a quote changed without a history
\* row is the work of the recompute pass: only its discount_pct changed, to
\* the value computed from the Steam baseline.
UpsertLoggedRecomputeNot ==
    [][last'.op \in SyncOps =>
        \A k \in Pairs :
          /\ Cardinality(AppendedFor(k)) <= 1
          /\ QuoteWritten(k) => Cardinality(AppendedFor(k)) = 1
          /\ \A i \in AppendedFor(k) :
                /\ k \in DOMAIN prices'
                /\ price_history'[i].price = prices'[k].price_current
                /\ price_history'[i].currency = prices'[k].currency
          /\ (/\ AppendedFor(k) = {}
              /\ k \in DOMAIN prices /\ k \in DOMAIN prices'
              /\ prices'[k] # prices[k])
             => /\ <<k[1], "Steam">> \in DOMAIN prices
                /\ prices'[k] = [prices[k] EXCEPT !.discount_pct =
                      RecalcDiscount(prices[<<k[1], "Steam">>].price_regular,
                                     prices[k].price_current)]]_vars

\* the Steam quote 8.00 of baseline 10.00 has been logged with discount 0
\* and recomputed to 20 in place
RecomputedWithoutHistory ==
    \E k \in DOMAIN prices :
       /\ k[2] = "Steam" /\ prices[k].discount_pct = 20
       /\ \E i \in HistoryOf(k) : price_history[i].discount_pct = 0
       /\ Cardinality(HistoryOf(k)) = 1

\* the price sync_prices has passed to upsert_historic_low for app_id in the
\* step taken (NULL: no call)
LowSaved(app_id) ==
    IF last'.op = "sync_prices" /\ ~last'.raised
          /\ last'.lows[app_id] # 0
    THEN last'.lows[app_id] ELSE NULL

\* C3: a Historic Low record is never removed and never raised: after a
\* call of upsert_historic_low its price is the smaller of the stored and
\* the new price, and without a call it is unchanged.
HistoricLowMonotone ==
    [][\A k \in DOMAIN historic_lows :
          /\ k \in DOMAIN historic_lows'
          /\ historic_lows'[k].price =
                IF LowSaved(k[1]) = NULL THEN historic_lows[k].price
                ELSE Min(historic_lows[k].price, LowSaved(k[1]))]_vars

\* sync_prices has offered a price above the stored Historic Low
HigherLowOffered ==
    /\ last.op = "sync_prices" /\ ~last.raised
    /\ \E k \in DOMAIN historic_lows :
          /\ last.lows[k[1]] # NULL
          /\ last.lows[k[1]] > historic_lows[k].price

\* C4 as claimed: every (item, store) with a row of price_history has a
\* Historic Low record whose price is at most the least price of these rows.
HistoricLowCoversHistory ==
    \A i \in 1..Len(price_history) :
       LET k == PairOf(price_history[i]) IN
       /\ k \in DOMAIN historic_lows
       /\ historic_lows[k].price <= price_history[i].price

\* C5 as claimed: no two threads are inside run_full_sync at once.
OneSyncInFlight == Cardinality(InFlight) <= 1

\* one full sync has been started and it has completed
FullSyncCompleted ==
    /\ DOMAIN threads = {1}
    /\ threads[1].pc = "done" /\ threads[1].itad_key
    /\ sync_status = Done

\* C6 as claimed: after a full sync has completed, for every item that the
\* price-comparison sync has processed and that has a Steam baseline b > 0,
\* the discount of every current quote is the one the recompute pass
\* computes from b and the quote's price.
CanonicalBaselineAfterFullSync ==
    FullSyncCompleted =>
       \A a \in DOMAIN games :
          (/\ games[a].last_checked = Checked
           /\ <<a, "Steam">> \in DOMAIN prices
           /\ prices[<<a, "Steam">>].price_regular > 0)
          => \A k \in DOMAIN prices :
                (k[1] = a /\ prices[k].price_current # NULL)
                => prices[k].discount_pct =
                      RecalcDiscount(prices[<<a, "Steam">>].price_regular,
                                     prices[k].price_current)

\* the recompute pass has run for app_id in the last step
Recomputed(app_id) ==
    /\ last.op = "sync_prices" /\ ~last.raised
    /\ app_id \in Mapped(DB)

HasBaseline(app_id) ==
    /\ <<app_id, "Steam">> \in DOMAIN prices
    /\ prices[<<app_id, "Steam">>].price_regular # NULL

Baseline(app_id) == prices[<<app_id, "Steam">>].price_regular

QuotesOf(app_id) == {k \in DOMAIN prices : k[1] = app_id}

\* C7 as claimed: after the recompute pass for an item with a baseline >= 0,
\* every current quote of the item with a price >= 0 has a discount in 0..100.
DiscountInRangeAfterRecompute ==
    \A a \in DOMAIN games :
       (Recomputed(a) /\ HasBaseline(a) /\ Baseline(a) >= 0)
       => \A k \in QuotesOf(a) :
             prices[k].price_current >= 0
             => prices[k].discount_pct \in 0..100

\* C8 as claimed: no stored current quote has a negative discount.
DiscountNeverNegative ==
    \A k \in DOMAIN prices : prices[k].discount_pct >= 0

\* n / d rounded to the nearest integer (d > 0)
RoundDiv(n, d) == (2 * n + d) \div (2 * d)

\* C9 as claimed: after the recompute pass for an item with baseline b > 0,
\* every current quote with price p >= 0 has the discount
\* clamp(round(100 * (b - p) / b), 0, 100).
RecomputeRounds ==
    \A a \in DOMAIN games :
       (Recomputed(a) /\ HasBaseline(a) /\ Baseline(a) > 0)
       => \A k \in QuotesOf(a) :
             prices[k].price_current >= 0
             => prices[k].discount_pct =
                  Max(0, Min(100, RoundDiv(
                      100 * (Baseline(a) - prices[k].price_current),
                      Baseline(a))))

\* C10 as claimed: after a Wishlist sync, an item whose only data is a
\* Wishlist quote of price c and baseline b, 0 < c <= b, has the discount
\* round(100 * (b - c) / b), the Historic Low c for (item, "Steam"), and
\* exactly one history row, of price c.
FirstReconciliation ==
    \A a \in DOMAIN games :
       LET k == <<a, "Steam">> IN
       (/\ last.op = "sync_wishlist" /\ ~last.raised
        /\ QuotesOf(a) = {k}
        /\ 0 < prices[k].price_current
        /\ prices[k].price_current <= prices[k].price_regular)
       => /\ prices[k].discount_pct =
               RoundDiv(100 * (prices[k].price_regular
                                 - prices[k].price_current),
                        prices[k].price_regular)
          /\ k \in DOMAIN historic_lows
          /\ historic_lows[k].price = prices[k].price_current
          /\ \E i \in 1..Len(price_history) :
                /\ price_history[i].price = prices[k].price_current
                /\ \A j \in 1..Len(price_history) :
                      price_history[j].app_id = a => j = i

\* the recompute pass was the call of the step taken
RecalculatedIn(l) == l.op = "_recalculate_discounts_from_steam"

\* C11: the recompute pass is idempotent: after a run of the pass for an
\* item, a second run for the same item changes no row of prices (nor any
\* other table).
RecomputeIdempotent ==
    [][RecalculatedIn(last') =>
          _recalculate_discounts_from_steam(DB', last'.app_id) = DB']_vars

\* the pass has run and has replaced the retailer's own discount (50) of the
\* quote 8.94 by the one from the Steam baseline 10.00
RecomputedFromBaseline ==
    /\ RecalculatedIn(last)
    /\ <<last.app_id, "Loaded">> \in DOMAIN prices
    /\ prices[<<last.app_id, "Loaded">>].price_regular = 1800
    /\ prices[<<last.app_id, "Loaded">>].discount_pct = 10

\* item app_id has no Steam quote with a non-null positive price_regular
NoPositiveBaseline(app_id) ==
    \/ <<app_id, "Steam">> \notin DOMAIN prices
    \/ prices[<<app_id, "Steam">>].price_regular = NULL
    \/ prices[<<app_id, "Steam">>].price_regular <= 0

\* C12: for an item without a Steam quote of positive price_regular the
\* recompute pass changes no row of any table and does not raise.
NoBaselineNoRecompute ==
    [][(RecalculatedIn(last') /\ NoPositiveBaseline(last'.app_id))
          => /\ prices' = prices
             /\ DB' = DB
             /\ ~last'.raised]_vars

\* the pass has run for an item that has a retailer quote of discount -20
\* and no positive Steam baseline
SkippedWithoutBaseline ==
    /\ RecalculatedIn(last)
    /\ NoPositiveBaseline(last.app_id)
    /\ <<last.app_id, "Loaded">> \in DOMAIN prices
    /\ prices[<<last.app_id, "Loaded">>].discount_pct = -20

\* C13 as claimed: after delete_game no row of prices, price_history,
\* bundles or historic_lows references the deleted item.
CascadeDeletion ==
    last.op = "delete_game" =>
       /\ last.app_id \notin DOMAIN games
       /\ \A k \in DOMAIN prices : k[1] # last.app_id
       /\ \A i \in 1..Len(price_history) :
             price_history[i].app_id # last.app_id
       /\ \A i \in 1..Len(bundles) : bundles[i].app_id # last.app_id
       /\ \A k \in DOMAIN historic_lows : k[1] # last.app_id

\* C14 as claimed: bundles holds at most one row per (item, bundle title).
BundleRediscoveryNoOp ==
    \A i, j \in 1..Len(bundles) :
       (/\ bundles[i].app_id = bundles[j].app_id
        /\ bundles[i].bundle_title = bundles[j].bundle_title)
       => i = j

\* the rows of prices that upsert_price can write from the quotes of env
RowsOf(app_id, store) ==
    {[price_current |-> q.price_current, price_regular |-> q.price_regular,
      currency |-> "GBP", discount_pct |-> q.discount_pct,
      url |-> SteamUrl(app_id)] : q \in {x \in env.quotes : x.store = store}}

\* C15: prices holds one row per (item, store): upsert_price inserts the
\* row of its pair or overwrites it in place with the values given, and
\* leaves the row of every other pair as it was.
QuoteOverwrittenInPlace ==
    [][last'.op = "upsert_price" =>
          LET k == <<last'.app_id, last'.store>> IN
          /\ DOMAIN prices' = DOMAIN prices \cup {k}
          /\ prices'[k] \in RowsOf(k[1], k[2])
          /\ \A j \in DOMAIN prices \ {k} : prices'[j] = prices[j]]_vars

\* a pair has been written twice, with different prices, and its row holds
\* the values of the second write
QuoteOverwritten ==
    /\ last.op = "upsert_price"
    /\ Len(price_history) = 2
    /\ PairOf(price_history[1]) = PairOf(price_history[2])
    /\ PairOf(price_history[2]) = <<last.app_id, last.store>>
    /\ price_history[1].price # price_history[2].price
    /\ prices[<<last.app_id, last.store>>].price_current
          = price_history[2].price

\* C16 as claimed: an exception of sync_prices does not end the run: the
\* run goes on to sync_loaded.  (run_full_sync catches it; this is the
\* statement for cmd_sync.)
SourceFailureIsolated ==
    \A t \in DOMAIN threads : threads[t].pc # "raised in sync_prices"

\* the rows of price_history of store d for pair k, in order
HistoryRows(d, k) == SelectSeq(d.price_history, LAMBDA h : PairOf(h) = k)

\* the observed fields of a row of prices
Observed(row) == [row EXCEPT !.discount_pct = 0]

\* store d holds the quotes of item app_id that the current state holds,
\* with the same values
SameQuotes(d, app_id) ==
    \A k \in Pairs :
       k[1] = app_id =>
          /\ k \in DOMAIN d.prices <=> k \in DOMAIN prices
          /\ k \in DOMAIN prices => d.prices[k] = prices[k]

\* the same, discount_pct apart
SameObservedQuotes(d, app_id) ==
    \A k \in Pairs :
       k[1] = app_id =>
          /\ k \in DOMAIN d.prices <=> k \in DOMAIN prices
          /\ k \in DOMAIN prices
                => Observed(d.prices[k]) = Observed(prices[k])

\* store d holds the history rows of item app_id that the current state holds
SameHistory(d, app_id) ==
    \A k \in Pairs :
       k[1] = app_id => HistoryRows(d, k) = HistoryRows(DB, k)

\* a product page that gives no quote: 403, 404, a failed request, a
\* sold-out badge, no price in the markup
FailedPage(page) ==
    page.status # 200 \/ page.sold_out \/ page.final_price = NULL

\* ITAD lists deals for the game, none with an amount
NoAmount(deals) ==
    deals # << >> /\ \A k \in 1..Len(deals) : deals[k].amount = NULL

\* the retailer sync, whatever pages it gets: a failed page leaves the
\* item's quotes and history as they are, a page with a price is saved
RetailerFailureWritesNothing ==
    \A pages \in FnOver(DOMAIN games, env.pages, NotFound) :
       LET r == sync_loaded(DB, rate_limit, pages) IN
       \A a \in DOMAIN games :
          IF FailedPage(pages[a])
          THEN SameQuotes(r.db, a) /\ SameHistory(r.db, a)
          ELSE /\ <<a, "Loaded">> \in DOMAIN r.db.prices
               /\ r.db.prices[<<a, "Loaded">>].price_current
                     = pages[a].final_price

\* the Wishlist sync, whatever it gets: a new game without a price is saved
\* without a quote, and the games after it are saved too
WishlistNoPriceWritesNothing ==
    \A inp \in WishlistAnswers(DB, env) :
       LET r == sync_wishlist(DB, inp.wl, inp.det) IN
       \A a \in SeqToSet(inp.wl.app_ids) \ DOMAIN games :
          (/\ ~r.raised
           /\ inp.det[a].kind = "game"
           /\ fetch_app_details(inp.det[a]).price_gbp = NULL)
          => /\ a \in DOMAIN r.db.games
             /\ SameQuotes(r.db, a) /\ SameHistory(r.db, a)
             /\ \A b \in SeqToSet(inp.wl.app_ids) \ DOMAIN games :
                   inp.det[b].kind = "game" => b \in DOMAIN r.db.games

OneRunEnded == DOMAIN threads = {1} /\ threads[1].pc = "done"

\* C18 as claimed: when the retailer has answered 403 during the run, the
\* final sync_status is neither the status of a run in which every source
\* succeeded nor the status of a failed run.
PartialSuccessReported ==
    (OneRunEnded /\ rate_limit.consecutive_errors > 0)
    => sync_status \notin {Done, Failed}

\* C19: an itad_slug once stored is kept: no sync changes or clears it or
\* removes its game, upsert_game for the game keeps it, and the game is in
\* no later lookup request.
ItadSlugKept ==
    [][\A a \in Mapped(DB) :
          /\ a \in DOMAIN games'
          /\ games'[a].itad_slug = games[a].itad_slug
          /\ upsert_game(DB', a, Title(a), SteamUrl(a)).games[a].itad_slug
                = games[a].itad_slug
          /\ a \notin NeedsLookup(DB')]_vars

\* a Wishlist sync has run after an item's identifier was stored
SlugKeptByLaterSync ==
    /\ last.op = "sync_wishlist" /\ ~last.raised
    /\ Mapped(DB) # {}

\* C20 as claimed: after a sync_prices run that has returned, no item is
\* left to look up: the items the lookup did not match are recorded and not
\* looked up again.
UnresolvedNotLookedUpAgain ==
    (last.op = "sync_prices" /\ ~last.raised) => NeedsLookup(DB) = {}

\* the current quotes of app_id: its rows of prices that hold a price
CurrentQuotes(app_id) ==
    {k \in DOMAIN prices : k[1] = app_id /\ prices[k].price_current # NULL}

\* C21 as claimed: in every deals report, an item with a current quote has
\* a row whose best_price is the least price_current of the item's current
\* quotes and whose best_store offers that price.
BestDealIsCheapest ==
    \A s \in get_deals_report(DB) :
       \A a \in DOMAIN games :
          CurrentQuotes(a) # {} =>
             \E i \in DOMAIN s :
                /\ s[i].app_id = a
                /\ \A k \in CurrentQuotes(a) :
                      s[i].best_price <= prices[k].price_current
                /\ <<a, s[i].best_store>> \in CurrentQuotes(a)
                /\ prices[<<a, s[i].best_store>>].price_current
                      = s[i].best_price

\* C22 as claimed: every deals report holds exactly one row for every item
\* of games, and a row without a best price comes after every row with one.
EveryItemHasReportRow ==
    \A s \in get_deals_report(DB) :
       /\ \A a \in DOMAIN games :
             Cardinality({i \in DOMAIN s : s[i].app_id = a}) = 1
       /\ \A i, j \in DOMAIN s :
             (s[i].best_price = NULL /\ s[j].best_price # NULL) => j < i

\* the Historic Low records of app_id, of every store
LowsOf(app_id) == {k \in DOMAIN historic_lows : k[1] = app_id}

\* C23: in every row of every deals report, historic_low is the least price
\* among the Historic Low records of the row's item over all stores,
\* whatever the row's best_store is, and it is null exactly when the item
\* has no Historic Low record.
ReportLowIsStoreIndependent ==
    \A s \in get_deals_report(DB) :
       \A i \in DOMAIN s :
          LET a == s[i].app_id IN
          /\ s[i].historic_low = NULL <=> LowsOf(a) = {}
          /\ \A k \in LowsOf(a) : s[i].historic_low <= historic_lows[k].price
          /\ LowsOf(a) # {} =>
                \E k \in LowsOf(a) : s[i].historic_low = historic_lows[k].price

\* a report row of an item whose lowest Historic Low record is of another
\* store than "Historic Low" and than the row's best_store
LowOfAnotherStoreReported ==
    \E s \in get_deals_report(DB) : \E i \in DOMAIN s :
       LET a == s[i].app_id IN
       /\ <<a, "Historic Low">> \in DOMAIN historic_lows
       /\ \E k \in LowsOf(a) :
             /\ k[2] \notin {"Historic Low", s[i].best_store}
             /\ historic_lows[k].price
                   < historic_lows[<<a, "Historic Low">>].price
             /\ s[i].historic_low = historic_lows[k].price

\* C24: whatever quote upsert_price is called with for an item of games,
\* every list get_all_prices_for_game returns right after the call holds
\* exactly one row of the quote's store, with the price, currency and url
\* that were written, whether or not the pair had a row before.
QuoteRoundTrip ==
    \A app_id \in DOMAIN games, q \in env.quotes :
       LET d == upsert_price(DB, app_id, q.store, q.price_current,
                             q.price_regular, "GBP", q.discount_pct,
                             SteamUrl(app_id))
       IN  /\ get_all_prices_for_game(d, app_id) # {}
           /\ \A s \in get_all_prices_for_game(d, app_id) :
                 \E i \in DOMAIN s :
                    /\ s[i].store = q.store
                    /\ s[i].price_current = q.price_current
                    /\ s[i].currency = "GBP"
                    /\ s[i].url = SteamUrl(app_id)
                    /\ \A j \in DOMAIN s : s[j].store = q.store => j = i

\* upsert_price has written a quote of an item that holds the quote of
\* another store too, and env offers another price for the pair written
QuoteReadBack ==
    /\ last.op = "upsert_price"
    /\ \E s \in get_all_prices_for_game(DB, last.app_id) : Len(s) = 2
    /\ \E q \in env.quotes :
          /\ q.store = last.store
          /\ q.price_current
                # prices[<<last.app_id, last.store>>].price_current

\* the items sync_prices has an identifier for once its lookup has answered
MappedAfterLookup(inp) ==
    IF inp.lookup_raised /\ NeedsLookup(DB) # {} THEN {}
    ELSE Mapped(DB) \cup (inp.matched \cap NeedsLookup(DB))

\* C25 as claimed: a sync_prices run that gets a deal with an amount for a
\* mapped item returns normally, having written the quote and its history
\* row and having marked every mapped item checked.
SyncPricesRunsToCompletion ==
    \A inp \in ItadAnswers(DB, env) :
       LET r == sync_prices(DB, inp) IN
       \A a \in MappedAfterLookup(inp) :
          SavesADeal(inp.deals[a]) =>
             /\ ~r.raised
             /\ \E j \in 1..Len(inp.deals[a]) :
                   LET k == <<a, inp.deals[a][j].shop>> IN
                   /\ k \in DOMAIN r.db.prices
                   /\ r.db.prices[k].price_current = inp.deals[a][j].amount
                   /\ Len(HistoryRows(r.db, k)) = Len(HistoryRows(DB, k)) + 1
             /\ \A b \in MappedAfterLookup(inp) :
                   r.db.games[b].last_checked = Checked

\* C26 as claimed: a retailer request that fails transiently is tried
\* again: when the first request for an item's page times out and the next
\* one is answered with a price, sync_loaded saves that quote.
TransientFailureRetried ==
    \A a \in DOMAIN games, answers \in [1..MaxRequests -> env.pages] :
       (Transient(answers[1]) /\ answers[2] \in QuotePages) =>
          LET pages == [b \in Items |->
                          IF b = a THEN AnswerGot(answers) ELSE NotFound]
              r == sync_loaded(DB, rate_limit, pages)
          IN  /\ <<a, "Loaded">> \in DOMAIN r.db.prices
              /\ r.db.prices[<<a, "Loaded">>].price_current
                    = answers[2].final_price

\* C27 as claimed: a rate-limit signal raises _min_delay_seconds, and once
\* requests succeed again (_consecutive_errors is back at 0) the delay is
\* back at its initial value.
RateLimitRecovers ==
    /\ _handle_rate_limit_error(rate_limit).min_delay_seconds
          > rate_limit.min_delay_seconds
    /\ rate_limit.consecutive_errors = 0
          => rate_limit.min_delay_seconds = InitRateLimit.min_delay_seconds

\* C28 as claimed: whatever 403 answers and successful requests came
\* before, _handle_rate_limit_error leaves _min_delay_seconds at least as
\* large as it was.
SignalNeverLowersDelay ==
    _handle_rate_limit_error(rate_limit).min_delay_seconds
       >= rate_limit.min_delay_seconds

\* thread t has left run_full_sync
Returned(t) == t \in DOMAIN threads /\ threads[t].pc = "done"

\* C29: every started run_full_sync ends (from any state with started runs
\* a state is reached where all of them have returned and sync_status has
\* running = False and done = True), and the step by which a run returns
\* leaves sync_status with running = False and done = True, whether its
\* syncs returned or raised.
SyncFlagReleased ==
    /\ (DOMAIN threads # {})
          ~> /\ \A t \in DOMAIN threads : Returned(t)
             /\ ~sync_status.running /\ sync_status.done
    /\ [][\A t \in DOMAIN threads :
             (~Returned(t) /\ threads'[t].pc = "done")
             => (~sync_status'.running /\ sync_status'.done)]_vars

\* a run has ended by an exception of sync_wishlist
RunEndedByException ==
    /\ \E t \in DOMAIN threads : Returned(t)
    /\ last.op = "sync_wishlist" /\ last.raised
    /\ sync_status = Failed

\* what the Wishlist source can report: the wishlist, and for each of its
\* items, known or new, the store details of now
WishlistReports(e) ==
    UNION {{[wl |-> wl, det |-> det] :
              det \in FnOver(SeqToSet(wl.app_ids), e.details, NoDetails)}
           : wl \in {w \in WishlistResponses :
                        SeqToSet(w.app_ids) \subseteq e.items}}

\* C30: whatever the Wishlist source reports, sync_wishlist leaves every
\* item that is already in games as it is: the item stays in games with its
\* row unchanged, its quotes (the Steam quote and its price_regular among
\* them) keep their values, and no history row is appended for it, whether
\* the item is on the wishlist reported or not.
KnownItemsUntouched ==
    \A inp \in WishlistReports(env) :
       LET r == sync_wishlist(DB, inp.wl, inp.det) IN
       \A a \in DOMAIN games :
          /\ a \in DOMAIN r.db.games
          /\ r.db.games[a] = games[a]
          /\ SameQuotes(r.db, a)
          /\ SameHistory(r.db, a)

\* a Wishlist sync has run when an item was known with its Steam quote and
\* a retailer quote
KnownItemSyncedAgain ==
    /\ last.op = "sync_wishlist" /\ ~last.raised
    /\ \E a \in DOMAIN games :
          /\ <<a, "Steam">> \in DOMAIN prices
          /\ <<a, "Loaded">> \in DOMAIN prices

=============================================================================
